---- MODULE Spec2Model ----
(***************************************************************************)
(* Model of extract_excel_images.py: extract_images_using_zipfile, of       *)
(* process_excel_data.py: process_excel_data, and of upload_to_es.py:      *)
(* generate_actions.                                                       *)
(* Paths, file names and extensions are sequences of one-character         *)
(* strings, so that prefix, suffix, substring, lower-casing, basename and  *)
(* the f-string that builds the output name are computed as the code       *)
(* computes them.  Contents are sequences of byte values.                  *)
(***************************************************************************)
EXTENDS Integers, Sequences, FiniteSets, TLC

\* Largest number of entries of an archive.
MaxEntries == 2

\* Largest number of columns and of rows of an input sheet.
MaxCols == 3
MaxRows == 2

----------------------------------------------------------------------------
\* String primitives of the Python runtime used by the function.

UpperAlpha ==
    <<"A","B","C","D","E","F","G","H","I","J","K","L","M",
      "N","O","P","Q","R","S","T","U","V","W","X","Y","Z">>

LowerAlpha ==
    <<"a","b","c","d","e","f","g","h","i","j","k","l","m",
      "n","o","p","q","r","s","t","u","v","w","x","y","z">>

DigitChars ==
    <<"0","1","2","3","4","5","6","7","8","9">>

\* str.lower() on one character.
LowerChar(c) ==
    IF \E k \in 1..26 : UpperAlpha[k] = c
    THEN LowerAlpha[CHOOSE k \in 1..26 : UpperAlpha[k] = c]
    ELSE c

\* str.lower()
lower(s) ==
    [k \in 1..Len(s) |-> LowerChar(s[k])]

\* str.startswith(p)
startswith(s, p) ==
    /\ Len(s) >= Len(p)
    /\ SubSeq(s, 1, Len(p)) = p

\* str.endswith(p)
endswith(s, p) ==
    /\ Len(s) >= Len(p)
    /\ SubSeq(s, Len(s) - Len(p) + 1, Len(s)) = p

\* p in s
contains(s, p) ==
    \E k \in 0..(Len(s) - Len(p)) : SubSeq(s, k + 1, k + Len(p)) = p

\* os.path.basename(s): what follows the last "/".
basename(s) ==
    LET slashes == {k \in 1..Len(s) : s[k] = "/"}
    IN  IF slashes = {}
        THEN s
        ELSE SubSeq(s, (CHOOSE k \in slashes : \A j \in slashes : j <= k) + 1, Len(s))

\* The decimal digits of a natural number, as the f-string formats it.
RECURSIVE str(_)
str(n) ==
    IF n < 10
    THEN <<DigitChars[n + 1]>>
    ELSE str(n \div 10) \o <<DigitChars[(n % 10) + 1]>>

----------------------------------------------------------------------------
\* Literals of the function.

XlMedia ==
    <<"x","l","/","m","e","d","i","a","/">>

PptMedia ==
    <<"/","p","p","t","/","m","e","d","i","a","/">>

WordMedia ==
    <<"/","w","o","r","d","/","m","e","d","i","a","/">>

ImageExtensions ==
    { <<".","p","n","g">>, <<".","j","p","g">>, <<".","j","p","e","g">>,
      <<".","g","i","f">>, <<".","b","m","p">>, <<".","t","i","f","f">>,
      <<".","e","m","f">>, <<".","w","m","f">> }

SniffWords ==
    { <<"d","r","a","w","i","n","g","s">>, <<"i","m","a","g","e">>,
      <<"m","e","d","i","a">> }

DetectedStem ==
    <<"_","d","e","t","e","c","t","e","d","_","i","m","a","g","e",".">>

DefaultExt ==
    <<"p","n","g">>

----------------------------------------------------------------------------
\* Contents and the decoder.

PngBytes  == <<137, 80>>
JpegBytes == <<255, 216>>
GifBytes  == <<71, 73>>
XmlBytes  == <<60, 63>>
NoBytes   == <<>>
OldBytes  == <<0>>

\* Image.open(...).format after img.verify(): the decoder's format name, or
\* "invalid" when opening or verifying raises.
ImageFormat(data) ==
    IF data = PngBytes THEN "PNG"
    ELSE IF data = JpegBytes THEN "JPEG"
    ELSE IF data = GifBytes THEN "GIF"
    ELSE "invalid"

\* The characters of a decoder format name.
FormatChars(fmt) ==
    IF fmt = "PNG" THEN <<"P","N","G">>
    ELSE IF fmt = "JPEG" THEN <<"J","P","E","G">>
    ELSE IF fmt = "GIF" THEN <<"G","I","F">>
    ELSE <<>>

----------------------------------------------------------------------------
\* The archive entries the model draws archives from.

Entries ==
    { [path |-> <<"x","l","/","m","e","d","i","a","/","i","m","a","g","e","1",".","p","n","g">>,
       data |-> PngBytes],
      [path |-> <<"x","l","/","m","e","d","i","a","/","i","m","a","g","e","2",".","j","p","g">>,
       data |-> JpegBytes],
      [path |-> <<"x","l","/","m","e","d","i","a","/","s","u","b","/","i","m","a","g","e","1",".","p","n","g">>,
       data |-> JpegBytes],
      [path |-> <<"x","l","/","m","e","d","i","a","/","e","m","p","t","y",".","p","n","g">>,
       data |-> NoBytes],
      [path |-> <<"x","l","/","m","e","d","i","a","/">>,
       data |-> NoBytes],
      [path |-> <<"p","p","t","/","m","e","d","i","a","/","x",".","p","n","g">>,
       data |-> PngBytes],
      [path |-> <<"w","o","r","d","/","m","e","d","i","a","/","y",".","g","i","f">>,
       data |-> GifBytes],
      [path |-> <<"a","/","p","p","t","/","m","e","d","i","a","/","x",".","p","n","g">>,
       data |-> PngBytes],
      [path |-> <<"a","/","p","i","c",".","p","n","g">>,
       data |-> PngBytes],
      [path |-> <<"a","/","P","I","C",".","P","N","G">>,
       data |-> PngBytes],
      [path |-> <<"i","m","a","g","e","s","/","l","o","g","o",".","p","n","g">>,
       data |-> PngBytes],
      [path |-> <<"x","l","/","d","r","a","w","i","n","g","s","/","d","r","a","w","i","n","g","1",".","x","m","l">>,
       data |-> XmlBytes],
      [path |-> <<"x","l","/","e","m","b","e","d","d","i","n","g","s","/","i","m","a","g","e","3",".","b","i","n">>,
       data |-> PngBytes],
      [path |-> <<"a","/","w","o","r","d","/","m","e","d","i","a","/","z",".","b","i","n">>,
       data |-> PngBytes],
      [path |-> <<"d","o","c","P","r","o","p","s","/","a","p","p",".","x","m","l">>,
       data |-> XmlBytes] }

\* Archives: at most MaxEntries entries, no path twice.
Archives ==
    { a \in UNION { [1..n -> Entries] : n \in 0..MaxEntries } :
        \A j, k \in DOMAIN a : j /= k => a[j].path /= a[k].path }

\* A file that is in the output directory before the call: left by an earlier
\* run, or the source archive itself when excel_path lies in output_dir.
StalePath ==
    <<"1","_","i","m","a","g","e","1",".","p","n","g">>

StaleDir ==
    [n \in {StalePath} |-> OldBytes]

EmptyDir ==
    [n \in {} |-> NoBytes]

----------------------------------------------------------------------------
\* process_excel_data.py.  A column name is a sequence of characters; the
\* characters of the three required names are written in pinyin, one string
\* per character.

KuanHao ==
    <<"kuan","hao">>

ChanPinMingCheng ==
    <<"chan","pin","ming","cheng">>

PinMu ==
    <<"pin","mu">>

\* Line 50.
required_columns ==
    <<KuanHao, ChanPinMingCheng, PinMu>>

\* Line 88: subset=['款号', '产品名称'].
dedup_subset ==
    {KuanHao, ChanPinMingCheng}

\* The header cells the model draws sheets from: a cell read as a string
\* (kind "str") or as a number (kind "int").
Labels ==
    { [kind |-> "str", text |-> <<"kuan","hao">>],
      [kind |-> "str", text |-> <<" ","kuan","hao"," ">>],
      [kind |-> "str", text |-> <<"kuan","hao","x">>],
      [kind |-> "str", text |-> <<"chan","pin","ming","cheng">>],
      [kind |-> "str", text |-> <<"pin","mu">>],
      [kind |-> "str", text |-> <<"kuan","hao","pin","mu">>],
      [kind |-> "str", text |-> <<"bei","zhu">>],
      [kind |-> "int", text |-> <<"2","0","2","4">>] }

\* The cell values.
Values ==
    {"a", "b"}

\* The output paths: without and with a directory part.
OutputFiles ==
    { <<"o","u","t",".","x","l","s","x">>,
      <<"d","a","t","a","/","o","u","t",".","x","l","s","x">> }

\* str.strip()
strip(s) ==
    LET solid == {k \in 1..Len(s) : s[k] /= " "}
    IN  IF solid = {}
        THEN <<>>
        ELSE SubSeq(s, CHOOSE k \in solid : \A j \in solid : k <= j,
                       CHOOSE k \in solid : \A j \in solid : j <= k)

\* os.path.dirname(s): what precedes the last "/".
dirname(s) ==
    LET slashes == {k \in 1..Len(s) : s[k] = "/"}
    IN  IF slashes = {}
        THEN <<>>
        ELSE SubSeq(s, 1, (CHOOSE k \in slashes : \A j \in slashes : j <= k) - 1)

\* Headers: at most MaxCols cells whose stripped texts differ.
Headers ==
    { h \in UNION { [1..n -> Labels] : n \in 0..MaxCols } :
        \A j, k \in DOMAIN h : j /= k => strip(h[j].text) /= strip(h[k].text) }

\* Sheets under a header: at most MaxRows rows of one value per column.  Only
\* the cells of the columns in used vary: the others are never read.
RowSeqs(h, used) ==
    UNION { [1..n -> {row \in [1..Len(h) -> Values] :
                        \A c \in 1..Len(h) : c \notin used => row[c] = "a"}] :
            n \in 0..MaxRows }

NoTable ==
    [columns |-> <<>>, rows |-> <<>>]

VARIABLES
    input,            \* what input_file names: "missing", "unreadable", "ok"
    header,           \* the header cells of the sheet
    sheet_rows,       \* the rows of the sheet
    output_file,      \* the output path
    ppc,              \* position in process_excel_data
    df_columns,       \* df.columns
    req,              \* position of the loop of line 56 in required_columns
    actual_columns,   \* line 53
    missing_columns,  \* line 54
    df_extract,       \* line 78
    df_deduplicated,  \* line 88
    saved,            \* the file at output_file: whether written, and the table
    io_error,         \* os.makedirs or to_excel raised for an outside reason
    pret              \* the returned value: "none", "True" or "False"

pvars ==
    <<input, header, sheet_rows, output_file, ppc, df_columns, req,
      actual_columns, missing_columns, df_extract, df_deduplicated, saved,
      io_error, pret>>

\* process_excel_data is not running.
PIdle ==
    /\ input = "missing"
    /\ header = <<>>
    /\ sheet_rows = <<>>
    /\ output_file = <<>>
    /\ ppc = "idle"
    /\ df_columns = <<>>
    /\ req = 0
    /\ actual_columns = <<>>
    /\ missing_columns = <<>>
    /\ df_extract = NoTable
    /\ df_deduplicated = NoTable
    /\ saved = [exists |-> FALSE, table |-> NoTable]
    /\ io_error = FALSE
    /\ pret = "none"

----------------------------------------------------------------------------
\* upload_to_es.py: generate_actions and the loop of upload_data_to_es that
\* sends its actions.  A cell of the data frame is a string (kind "str", its
\* characters in text) or a whole number (kind "int", its value in num).

\* chunk_size of streaming_bulk: the number of actions sent in one request.
ChunkSize == 2

\* The cells of the columns 款号 and 产品名称 the model draws rows from.
KeyCells ==
    { [kind |-> "str", text |-> <<"a">>, num |-> 0],
      [kind |-> "str", text |-> <<"a","-","a">>, num |-> 0],
      [kind |-> "str", text |-> <<"1">>, num |-> 0],
      [kind |-> "int", text |-> <<>>, num |-> 1] }

\* The cells of the column 品目.
PinMuCells ==
    { [kind |-> "str", text |-> <<"x">>, num |-> 0],
      [kind |-> "str", text |-> <<"y">>, num |-> 0] }

\* The rows of the data frame: the three columns generate_actions reads.
FrameRows ==
    [kuan_hao : KeyCells, chan_pin_ming_cheng : KeyCells, pin_mu : PinMuCells]

\* The data frames: at most MaxRows rows.
Frames ==
    UNION { [1..n -> FrameRows] : n \in 0..MaxRows }

\* The values datetime.now().strftime(...) can give.
Times ==
    {"t1", "t2"}

\* An index without documents.
NoDocs ==
    [i \in {} |-> 0]

VARIABLES
    df,            \* the data frame: sequence of rows
    index_name,    \* the index the actions name
    upc,           \* position in the loop of lines 244-272
    row_at,        \* number of rows df.iterrows() has given
    current_time,  \* line 180
    yielded,       \* the actions the generator has yielded, in order
    chunk,         \* the actions collected for the next request
    es_docs,       \* the index: _id -> [source, by], by the position of the
                   \* row whose action was indexed last under that _id
    success,       \* line 241
    uret           \* the returned value: "none", "True" or "False"

uvars ==
    <<df, index_name, upc, row_at, current_time, yielded, chunk, es_docs,
      success, uret>>

\* upload_data_to_es is not running.
UIdle ==
    /\ df = <<>>
    /\ index_name = "none"
    /\ upc = "idle"
    /\ row_at = 0
    /\ current_time = "none"
    /\ yielded = <<>>
    /\ chunk = <<>>
    /\ es_docs = NoDocs
    /\ success = 0
    /\ uret = "none"

----------------------------------------------------------------------------
VARIABLES
    run,          \* 1 in the first call, 2 in a second call on the same source
    first,        \* what the first call returned and left in its directory
    src_at,       \* where excel_path lies: "elsewhere", or "output_dir" when
                  \* it is the file StalePath of output_dir
    src,          \* what excel_path names: "missing", "not_zip" or "zip"
    zip_ref,      \* the archive: sequence of [path, data]
    HAS_PIL,      \* whether the decoder was imported
    pc,           \* position in the function
    idx,          \* position of the running loop in all_files
    image_count,  \* the running counter
    dir_exists,   \* whether output_dir exists
    dir_files,    \* output_dir: file name -> bytes
    dir_before,   \* dir_exists and dir_files before the call
    ret,          \* the returned value, -1 until the function returns
    outcome,      \* the path the function returned through
    entered,      \* the tiers whose loop was entered
    attempts,     \* <<tier, entry>> whose extraction was attempted
    failures,     \* <<tier, entry>> whose extraction raised
    writes        \* log of the files opened for writing

\* The variables of extract_images_using_zipfile.
evars ==
    <<run, first, src_at, src, zip_ref, HAS_PIL, pc, idx, image_count, dir_exists, dir_files,
      dir_before, ret, outcome, entered, attempts, failures, writes>>

vars ==
    <<uvars, pvars, run, first, src_at, src, zip_ref, HAS_PIL, pc, idx, image_count, dir_exists, dir_files,
      dir_before, ret, outcome, entered, attempts, failures, writes>>

\* zip_ref.namelist()
all_files ==
    [k \in 1..Len(zip_ref) |-> zip_ref[k].path]

\* zip_ref.read(file)
zip_read(file) ==
    (CHOOSE e \in {zip_ref[k] : k \in 1..Len(zip_ref)} : e.path = file).data

\* Line 57: image_count = 0 at every call.
InitialCount_Global(previous) ==
    previous

InitialCount(previous) ==
    0

Init ==
    /\ UIdle
    /\ PIdle
    /\ run = 1
    /\ first = [ret |-> -1, files |-> EmptyDir]
    /\ src \in {"missing", "not_zip", "zip"}
    /\ src_at \in {"elsewhere", "output_dir"}
    /\ zip_ref \in Archives
    /\ src /= "zip" => zip_ref = <<>>
    /\ HAS_PIL \in BOOLEAN
    /\ dir_exists \in BOOLEAN
    /\ src_at = "output_dir" => (dir_exists /\ src /= "missing")
    /\ dir_files = IF dir_exists THEN StaleDir ELSE EmptyDir
    /\ dir_before = [exists |-> dir_exists, files |-> dir_files]
    /\ pc = "check_source"
    /\ idx = 0
    /\ image_count = InitialCount(0)
    /\ ret = -1
    /\ outcome = "running"
    /\ entered = {}
    /\ attempts = {}
    /\ failures = {}
    /\ writes = <<>>

----------------------------------------------------------------------------
\* The qualification tests of the three passes.

Tier1Qualifies(file) ==
    \/ startswith(file, XlMedia)
    \/ contains(file, PptMedia)
    \/ contains(file, WordMedia)

Tier2Qualifies(file) ==
    \E ext \in ImageExtensions : endswith(file, ext)

Tier3Qualifies(file) ==
    \E w \in SniffWords : contains(lower(file), w)

\* f"{image_count}_{image_filename}"
OutputName_NoCounter(n, image_filename) ==
    image_filename

OutputName(n, image_filename) ==
    str(n) \o <<"_">> \o image_filename

\* f"{image_count}_detected_image.{img.format.lower() if img.format else 'png'}"
DetectedName(n, fmt) ==
    str(n) \o DetectedStem \o (IF fmt = "" THEN DefaultExt ELSE lower(FormatChars(fmt)))

\* with open(output_path, 'wb') as f: f.write(data)
WriteFile(files, name, data) ==
    [n \in (DOMAIN files) \cup {name} |-> IF n = name THEN data ELSE files[n]]

\* What can happen to one entry: everything works, zip_ref.read raises,
\* open raises (no file), f.write raises (the file stays, truncated).
Results ==
    {"ok", "read_fail", "open_fail", "write_fail"}

Return(value, how) ==
    /\ ret' = value
    /\ outcome' = how
    /\ pc' = "done"

----------------------------------------------------------------------------
\* Lines 38-61: the checks before the archive is read.

\* CheckSource without the test of line 39.
CheckSource_NoCheck ==
    /\ pc = "check_source"
    /\ pc' = "makedirs"
    /\ UNCHANGED <<ret, outcome>>
    /\ UNCHANGED <<uvars, pvars, run, first, src_at, src, zip_ref, HAS_PIL, idx, image_count, dir_exists,
                   dir_files, dir_before, entered, attempts, failures, writes>>

CheckSource ==
    /\ pc = "check_source"
    /\ IF src = "missing"
       THEN Return(0, "no_source")
       ELSE /\ pc' = "makedirs"
            /\ UNCHANGED <<ret, outcome>>
    /\ UNCHANGED <<uvars, pvars, run, first, src_at, src, zip_ref, HAS_PIL, idx, image_count, dir_exists,
                   dir_files, dir_before, entered, attempts, failures, writes>>

\* MakeDirs going on to open the archive when os.makedirs raised.
MakeDirs_Ignore ==
    /\ pc = "makedirs"
    /\ \E ok \in BOOLEAN :
         /\ dir_exists => ok
         /\ dir_exists' = ok
         /\ pc' = "open_zip"
         /\ UNCHANGED <<ret, outcome>>
    /\ UNCHANGED <<uvars, pvars, run, first, src_at, src, zip_ref, HAS_PIL, idx, image_count, dir_files,
                   dir_before, entered, attempts, failures, writes>>

MakeDirs ==
    /\ pc = "makedirs"
    /\ \E ok \in BOOLEAN :
         /\ dir_exists => ok
         /\ IF ok
            THEN /\ dir_exists' = TRUE
                 /\ pc' = "open_zip"
                 /\ UNCHANGED <<ret, outcome>>
            ELSE /\ Return(0, "mkdir_failed")
                 /\ UNCHANGED dir_exists
    /\ UNCHANGED <<uvars, pvars, run, first, src_at, src, zip_ref, HAS_PIL, idx, image_count, dir_files,
                   dir_before, entered, attempts, failures, writes>>

\* OpenZip without the BadZipFile return of lines 149-151.
OpenZip_NoCheck ==
    /\ pc = "open_zip"
    /\ pc' = "tier1"
    /\ idx' = 1
    /\ entered' = entered \cup {1}
    /\ UNCHANGED <<ret, outcome>>
    /\ UNCHANGED <<uvars, pvars, run, first, src_at, src, zip_ref, HAS_PIL, image_count, dir_exists, dir_files,
                   dir_before, attempts, failures, writes>>

OpenZip ==
    /\ pc = "open_zip"
    /\ IF src = "not_zip"
       THEN /\ Return(0, "bad_zip")
            /\ UNCHANGED <<idx, entered>>
       ELSE /\ pc' = "tier1"
            /\ idx' = 1
            /\ entered' = entered \cup {1}
            /\ UNCHANGED <<ret, outcome>>
    /\ UNCHANGED <<uvars, pvars, run, first, src_at, src, zip_ref, HAS_PIL, image_count, dir_exists, dir_files,
                   dir_before, attempts, failures, writes>>

----------------------------------------------------------------------------
\* Lines 79-93 and 102-116: the try block of the first two passes.

ExtractEntry(tier, file, result) ==
    LET n    == image_count + 1
        name == OutputName(n, basename(file))
        data == zip_read(file)
    IN  /\ image_count' = n
        /\ attempts' = attempts \cup {<<tier, idx>>}
        /\ failures' = IF result = "ok" THEN failures
                       ELSE failures \cup {<<tier, idx>>}
        /\ dir_files' = CASE result = "ok" -> WriteFile(dir_files, name, data)
                          [] result = "write_fail" -> WriteFile(dir_files, name, NoBytes)
                          [] OTHER -> dir_files
        /\ writes' = CASE result = "ok" ->
                            Append(writes, [tier |-> tier, entry |-> idx, name |-> name,
                                            data |-> data, complete |-> TRUE])
                       [] result = "write_fail" ->
                            Append(writes, [tier |-> tier, entry |-> idx, name |-> name,
                                            data |-> NoBytes, complete |-> FALSE])
                       [] OTHER -> writes

\* Lines 123-138: the try block of the third pass.
DetectEntry(file, result) ==
    LET data == zip_read(file)
        fmt  == ImageFormat(data)
        n    == image_count + 1
        name == DetectedName(n, fmt)
    IN  /\ attempts' = attempts \cup {<<3, idx>>}
        /\ IF result = "read_fail" \/ fmt = "invalid"
           THEN /\ failures' = failures \cup {<<3, idx>>}
                /\ UNCHANGED <<image_count, dir_files, writes>>
           ELSE /\ image_count' = n
                /\ failures' = IF result = "ok" THEN failures
                               ELSE failures \cup {<<3, idx>>}
                /\ dir_files' = CASE result = "ok" -> WriteFile(dir_files, name, data)
                                  [] result = "write_fail" -> WriteFile(dir_files, name, NoBytes)
                                  [] OTHER -> dir_files
                /\ writes' = CASE result = "ok" ->
                                    Append(writes, [tier |-> 3, entry |-> idx, name |-> name,
                                                    data |-> data, complete |-> TRUE])
                               [] result = "write_fail" ->
                                    Append(writes, [tier |-> 3, entry |-> idx, name |-> name,
                                                    data |-> NoBytes, complete |-> FALSE])
                               [] OTHER -> writes

\* Tier1Step leaving the loop at the first entry that raises.
Tier1Step_Break ==
    /\ pc = "tier1"
    /\ idx <= Len(all_files)
    /\ IF Tier1Qualifies(all_files[idx])
       THEN \E result \in Results :
              /\ ExtractEntry(1, all_files[idx], result)
              /\ idx' = IF result = "ok" THEN idx + 1 ELSE Len(all_files) + 1
       ELSE /\ UNCHANGED <<image_count, attempts, failures, dir_files, writes>>
            /\ idx' = idx + 1
    /\ UNCHANGED <<uvars, pvars, run, first, src_at, src, zip_ref, HAS_PIL, pc, dir_exists, dir_before, ret,
                   outcome, entered>>

\* Lines 76-93: one iteration of the first pass.
Tier1Step ==
    /\ pc = "tier1"
    /\ idx <= Len(all_files)
    /\ IF Tier1Qualifies(all_files[idx])
       THEN \E result \in Results : ExtractEntry(1, all_files[idx], result)
       ELSE UNCHANGED <<image_count, attempts, failures, dir_files, writes>>
    /\ idx' = idx + 1
    /\ UNCHANGED <<uvars, pvars, run, first, src_at, src, zip_ref, HAS_PIL, pc, dir_exists, dir_before, ret,
                   outcome, entered>>

\* Line 95: after the first pass.
Tier1Done ==
    /\ pc = "tier1"
    /\ idx > Len(all_files)
    /\ IF image_count = 0
       THEN /\ pc' = "tier2"
            /\ idx' = 1
            /\ entered' = entered \cup {2}
       ELSE /\ pc' = "summary"
            /\ UNCHANGED <<idx, entered>>
    /\ UNCHANGED <<uvars, pvars, run, first, src_at, src, zip_ref, HAS_PIL, image_count, dir_exists, dir_files,
                   dir_before, ret, outcome, attempts, failures, writes>>

\* Lines 100-116: one iteration of the second pass.
Tier2Step ==
    /\ pc = "tier2"
    /\ idx <= Len(all_files)
    /\ IF Tier2Qualifies(all_files[idx])
       THEN \E result \in Results : ExtractEntry(2, all_files[idx], result)
       ELSE UNCHANGED <<image_count, attempts, failures, dir_files, writes>>
    /\ idx' = idx + 1
    /\ UNCHANGED <<uvars, pvars, run, first, src_at, src, zip_ref, HAS_PIL, pc, dir_exists, dir_before, ret,
                   outcome, entered>>

\* Line 119: after the second pass.
Tier2Done ==
    /\ pc = "tier2"
    /\ idx > Len(all_files)
    /\ IF HAS_PIL
       THEN /\ pc' = "tier3"
            /\ idx' = 1
            /\ entered' = entered \cup {3}
       ELSE /\ pc' = "summary"
            /\ UNCHANGED <<idx, entered>>
    /\ UNCHANGED <<uvars, pvars, run, first, src_at, src, zip_ref, HAS_PIL, image_count, dir_exists, dir_files,
                   dir_before, ret, outcome, attempts, failures, writes>>

\* Lines 121-138: one iteration of the third pass.
Tier3Step ==
    /\ pc = "tier3"
    /\ idx <= Len(all_files)
    /\ IF Tier3Qualifies(all_files[idx])
       THEN \E result \in Results : DetectEntry(all_files[idx], result)
       ELSE UNCHANGED <<image_count, attempts, failures, dir_files, writes>>
    /\ idx' = idx + 1
    /\ UNCHANGED <<uvars, pvars, run, first, src_at, src, zip_ref, HAS_PIL, pc, dir_exists, dir_before, ret,
                   outcome, entered>>

Tier3Done ==
    /\ pc = "tier3"
    /\ idx > Len(all_files)
    /\ pc' = "summary"
    /\ UNCHANGED <<uvars, pvars, run, first, src_at, src, zip_ref, HAS_PIL, idx, image_count, dir_exists,
                   dir_files, dir_before, ret, outcome, entered, attempts,
                   failures, writes>>

\* Lines 140-167: the summary and the normal return.
Finish ==
    /\ pc = "summary"
    /\ Return(image_count, "returned")
    /\ UNCHANGED <<uvars, pvars, run, first, src_at, src, zip_ref, HAS_PIL, idx, image_count, dir_exists,
                   dir_files, dir_before, entered, attempts, failures, writes>>

\* UnexpectedFailure removing what the call wrote.
UnexpectedFailure_Rollback ==
    /\ pc \in {"tier1", "tier2", "tier3", "summary"}
    /\ Return(0, "unexpected")
    /\ dir_files' = dir_before.files
    /\ UNCHANGED <<uvars, pvars, run, first, src_at, src, zip_ref, HAS_PIL, idx, image_count, dir_exists,
                   dir_before, entered, attempts, failures, writes>>

\* Lines 152-156: an exception outside the per-entry handlers.
UnexpectedFailure ==
    /\ pc \in {"tier1", "tier2", "tier3", "summary"}
    /\ Return(0, "unexpected")
    /\ UNCHANGED <<uvars, pvars, run, first, src_at, src, zip_ref, HAS_PIL, idx, image_count, dir_exists,
                   dir_files, dir_before, entered, attempts, failures, writes>>

Next ==
    \/ CheckSource
    \/ MakeDirs
    \/ OpenZip
    \/ Tier1Step
    \/ Tier1Done
    \/ Tier2Step
    \/ Tier2Done
    \/ Tier3Step
    \/ Tier3Done
    \/ Finish
    \/ UnexpectedFailure

Spec ==
    Init /\ [][Next]_vars

----------------------------------------------------------------------------
\* Vocabulary of the properties.

\* The function returned through line 167.
Normal ==
    pc = "done" /\ outcome = "returned"

\* Positions in the log of the files that were written completely.
Written ==
    {k \in 1..Len(writes) : writes[k].complete}

\* Positions in the log of the files a given tier wrote completely.
WrittenBy(tier) ==
    {k \in Written : writes[k].tier = tier}

\* The media-folder prefixes of the three format variants.
CanonicalPrefix(file) ==
    \/ startswith(file, <<"x","l","/","m","e","d","i","a","/">>)
    \/ startswith(file, <<"p","p","t","/","m","e","d","i","a","/">>)
    \/ startswith(file, <<"w","o","r","d","/","m","e","d","i","a","/">>)

CanonicalEntries ==
    {k \in 1..Len(all_files) : CanonicalPrefix(all_files[k])}

\* Case-insensitive suffix match against the allow-list.
AllowListed(file) ==
    \E ext \in ImageExtensions : endswith(lower(file), ext)

AllowListedEntries ==
    {k \in 1..Len(all_files) : AllowListed(all_files[k])}

\* No read or write of the first two passes raised.
NoEntryFailure ==
    \A f \in failures : f[1] = 3

\* The entries the extracting pass (the first or else the second) attempted.
PassEntries ==
    IF \E a \in attempts : a[1] = 1
    THEN {a[2] : a \in {b \in attempts : b[1] = 1}}
    ELSE {a[2] : a \in {b \in attempts : b[1] = 2}}

\* <<name, bytes>> of the i-th attempted entry, i counted in listing order.
PassFiles ==
    { << str(Cardinality({j \in PassEntries : j <= k})) \o <<"_">> \o basename(all_files[k]),
         zip_ref[k].data >> : k \in PassEntries }

----------------------------------------------------------------------------
\* C1: when the function returns through the normal path, the returned count
\* equals the number of files written; a failed entry is not counted.
C1_CountIsFilesWritten ==
    Normal => ret = Cardinality(Written)

\* C2: with k >= 1 entries under a canonical media folder (and no entry
\* failure) the run writes exactly k files, all in the first pass, and the
\* second and third passes are not entered.
C2_CanonicalOnlyTier1 ==
    (Normal /\ failures = {} /\ CanonicalEntries /= {}) =>
        /\ Cardinality(Written) = Cardinality(CanonicalEntries)
        /\ \A k \in Written : writes[k].tier = 1
        /\ entered = {1}

\* C3: with no canonical media entry and m allow-listed entries the returned
\* count is m and every file was written by the second pass, with or without
\* the decoder.
C3_ExtensionOnlyTier2 ==
    (Normal /\ CanonicalEntries = {}) =>
        /\ ret = Cardinality(AllowListedEntries)
        /\ \A k \in 1..Len(writes) : writes[k].tier = 2

\* C4: the third pass is entered only when the first two passes wrote nothing
\* and the decoder is available; no entry is written by both the second and
\* the third pass; without the decoder no detected_image file is written.
C4_Tier3OnlyAfterEmptyTiers ==
    /\ 3 \in entered => (HAS_PIL /\ WrittenBy(1) = {} /\ WrittenBy(2) = {})
    /\ \A j, k \in 1..Len(writes) :
         ~(writes[j].tier = 2 /\ writes[k].tier = 3 /\ writes[j].entry = writes[k].entry)
    /\ ~HAS_PIL => \A k \in 1..Len(writes) : writes[k].tier /= 3

\* C5: the passes run in the order 1, 2, 3 and the second pass is entered
\* exactly in the runs where the first pass wrote no file.
C5_Tier2IffTier1WroteNothing ==
    /\ \A j, k \in 1..Len(writes) : j <= k => writes[j].tier <= writes[k].tier
    /\ Normal => ((2 \in entered) <=> (WrittenBy(1) = {}))

\* C6: an entry is taken by the first pass exactly when its path begins with
\* xl/media/, ppt/media/ or word/media/.
C6_Tier1IffCanonicalPrefix ==
    Normal =>
        \A k \in 1..Len(all_files) :
            (<<1, k>> \in attempts) <=> CanonicalPrefix(all_files[k])

\* C7: an entry is taken by the second pass exactly when its path ends,
\* case-insensitively, with an allow-listed extension.
C7_Tier2IffAllowListed ==
    (Normal /\ 2 \in entered) =>
        \A k \in 1..Len(all_files) :
            (<<2, k>> \in attempts) <=> AllowListed(all_files[k])

\* C8: in a first or second pass without entry failures the i-th qualifying
\* entry is written to <i>_<basename> with the entry's bytes, the output
\* directory gains exactly those files, and the function returns their number.
C8_PassWritesNumberedCopies ==
    (Normal /\ NoEntryFailure /\ PassEntries /= {}) =>
        /\ ret = Cardinality(PassEntries)
        /\ {<<writes[k].name, writes[k].data>> : k \in 1..Len(writes)} = PassFiles
        /\ DOMAIN dir_files = (DOMAIN dir_before.files) \cup {f[1] : f \in PassFiles}
        /\ \A f \in PassFiles : dir_files[f[1]] = f[2]

\* C9: any two files opened for writing during one call have different
\* names, so no write of the run overwrites an earlier write of the run.
C9_NamesDistinct ==
    \A j, k \in 1..Len(writes) : j /= k => writes[j].name /= writes[k].name

\* The function returned after writing two different entries that have the
\* same basename.
C9_Witness ==
    /\ Normal
    /\ \E j, k \in Written :
         /\ j < k
         /\ writes[j].entry /= writes[k].entry
         /\ basename(all_files[writes[j].entry]) = basename(all_files[writes[k].entry])

\* C10: every file written holds non-empty bytes copied from its entry; a
\* zero-length entry or a directory entry never produces an output file.
C10_WrittenFilesNonEmpty ==
    \A k \in Written :
        /\ writes[k].data = zip_ref[writes[k].entry].data
        /\ writes[k].data /= NoBytes
        /\ ~endswith(all_files[writes[k].entry], <<"/">>)

----------------------------------------------------------------------------
\* A second call on the same source.

\* No read, open or write raised: the only entries skipped are third-pass
\* entries whose bytes do not decode.
NoIOFailure ==
    \A f \in failures : f[1] = 3 /\ ImageFormat(zip_ref[f[2]].data) = "invalid"

\* Lines 26-57: the function is called again on the same source, with another
\* output directory that does not exist yet, after a first call that met no
\* I/O failure and started from no directory.
Rerun ==
    /\ run = 1
    /\ Normal
    /\ NoIOFailure
    /\ ~dir_before.exists
    /\ src_at = "elsewhere"
    /\ run' = 2
    /\ first' = [ret |-> ret, files |-> dir_files]
    /\ pc' = "check_source"
    /\ idx' = 0
    /\ image_count' = InitialCount(image_count)
    /\ dir_exists' = FALSE
    /\ dir_files' = EmptyDir
    /\ dir_before' = [exists |-> FALSE, files |-> EmptyDir]
    /\ ret' = -1
    /\ outcome' = "running"
    /\ entered' = {}
    /\ attempts' = {}
    /\ failures' = {}
    /\ writes' = <<>>
    /\ UNCHANGED <<uvars, pvars, src_at, src, zip_ref, HAS_PIL>>

NextTwice ==
    \/ CheckSource
    \/ MakeDirs
    \/ OpenZip
    \/ Tier1Step
    \/ Tier1Done
    \/ Tier2Step
    \/ Tier2Done
    \/ Tier3Step
    \/ Tier3Done
    \/ Finish
    \/ UnexpectedFailure
    \/ Rerun

SpecTwice ==
    Init /\ [][NextTwice]_vars

----------------------------------------------------------------------------
\* C11: when the source path does not exist the function returns 0 through
\* the missing-source report, does not create the output directory and writes
\* nothing.
C11_MissingSourceLeavesNoTrace ==
    (pc = "done" /\ src = "missing") =>
        /\ ret = 0
        /\ outcome = "no_source"
        /\ dir_exists = dir_before.exists
        /\ dir_files = dir_before.files
        /\ writes = <<>>

\* The function returned for a missing source and an absent directory.
C11_Witness ==
    pc = "done" /\ src = "missing" /\ ~dir_before.exists /\ ~dir_exists

\* C12: when the source is an existing file that is not a zip archive the
\* function returns 0 through an error report and the output directory holds
\* what it held before the call.
C12_NotZipWritesNothing ==
    (pc = "done" /\ src = "not_zip") =>
        /\ ret = 0
        /\ outcome \in {"bad_zip", "mkdir_failed"}
        /\ dir_files = dir_before.files
        /\ writes = <<>>

\* BadZipFile was reported with a file already in the output directory.
C12_Witness ==
    pc = "done" /\ src = "not_zip" /\ outcome = "bad_zip" /\ dir_files = StaleDir

\* C13: when a failure escapes the per-entry handlers the function returns 0
\* and every file written before it is still in the output directory with the
\* bytes written.
C13_UnexpectedFailureKeepsFiles ==
    outcome = "unexpected" =>
        /\ ret = 0
        /\ \A k \in 1..Len(writes) :
             /\ writes[k].name \in DOMAIN dir_files
             /\ dir_files[writes[k].name] = writes[k].data

\* The failure came after two images were written.
C13_Witness ==
    outcome = "unexpected" /\ Cardinality(Written) >= 2

\* C14: when the output directory cannot be created the function returns 0,
\* the archive is not opened and no file is written.
C14_MkdirFailureStops ==
    (pc = "done" /\ src /= "missing" /\ ~dir_exists) =>
        /\ ret = 0
        /\ outcome = "mkdir_failed"
        /\ entered = {}
        /\ writes = <<>>
        /\ dir_files = EmptyDir

\* os.makedirs raised for a source that is a readable archive with entries.
C14_Witness ==
    pc = "done" /\ outcome = "mkdir_failed" /\ src = "zip" /\ Len(zip_ref) >= 1

\* C15: the source archive is never written: when it lies in the output
\* directory no file of the run has its name and its bytes stay what they
\* were.
C15_SourceNeverWritten ==
    src_at = "output_dir" =>
        /\ \A k \in 1..Len(writes) : writes[k].name /= StalePath
        /\ dir_files[StalePath] = OldBytes

\* C16: with no canonical media entry, no allow-listed entry, the decoder and
\* no I/O failure, the third pass runs and writes exactly the entries whose
\* path contains drawings, image or media (case-insensitively) and whose bytes
\* decode, the n-th as <n>_detected_image.<ext> with the entry's bytes.
C16_Tier3WritesDecodableEntries ==
    (Normal /\ NoIOFailure /\ HAS_PIL /\ CanonicalEntries = {} /\ AllowListedEntries = {}) =>
        /\ 3 \in entered
        /\ {writes[k].entry : k \in 1..Len(writes)} =
              {e \in 1..Len(all_files) :
                  /\ \E w \in SniffWords : contains(lower(all_files[e]), w)
                  /\ ImageFormat(zip_ref[e].data) /= "invalid"}
        /\ \A k \in 1..Len(writes) :
              LET fmt == ImageFormat(zip_ref[writes[k].entry].data)
              IN  /\ writes[k].tier = 3
                  /\ writes[k].data = zip_ref[writes[k].entry].data
                  /\ writes[k].name =
                       str(k) \o DetectedStem \o
                       (IF fmt = "" THEN <<"p","n","g">> ELSE lower(FormatChars(fmt)))

\* C17: a second call on the same source into another empty directory, with
\* the same decoder flag and no I/O failure, returns the same count and leaves
\* the same file names with the same bytes.
C17_SecondRunSameResult ==
    (run = 2 /\ Normal /\ NoIOFailure) =>
        /\ ret = first.ret
        /\ dir_files = first.files

\* The second call returned after writing two files.
C17_Witness ==
    run = 2 /\ Normal /\ NoIOFailure /\ Cardinality(Written) >= 2

\* The entries a pass takes.
Qualifies(tier, file) ==
    IF tier = 1 THEN Tier1Qualifies(file)
    ELSE IF tier = 2 THEN Tier2Qualifies(file)
    ELSE Tier3Qualifies(file)

\* C18: an entry that fails does not abort the run: the step in which it
\* fails moves the loop to the next entry and leaves the earlier files in
\* place, and a run that returns normally has attempted every qualifying
\* entry of every pass it entered.
C18_EntryFailureDoesNotAbort ==
    /\ [](Normal =>
            \A t \in entered : \A e \in 1..Len(all_files) :
                Qualifies(t, all_files[e]) => <<t, e>> \in attempts)
    /\ [][failures' /= failures =>
            /\ pc' = pc
            /\ outcome' = "running"
            /\ idx' = idx + 1
            /\ \A k \in 1..Len(writes) :
                 /\ writes'[k] = writes[k]
                 /\ dir_files'[writes[k].name] = writes[k].data]_vars

\* A run returned normally having written an entry that follows, in the same
\* pass, an entry whose read or write raised.
C18_Witness ==
    /\ Normal
    /\ \E f \in failures : \E k \in Written :
         /\ f[1] <= 2
         /\ writes[k].tier = f[1]
         /\ writes[k].entry > f[2]

----------------------------------------------------------------------------
\* process_excel_data.

\* extract_images_using_zipfile is not running.
EIdle ==
    /\ run = 1
    /\ first = [ret |-> -1, files |-> EmptyDir]
    /\ src_at = "elsewhere"
    /\ src = "missing"
    /\ zip_ref = <<>>
    /\ HAS_PIL = FALSE
    /\ pc = "idle"
    /\ idx = 0
    /\ image_count = 0
    /\ dir_exists = FALSE
    /\ dir_files = EmptyDir
    /\ dir_before = [exists |-> FALSE, files |-> EmptyDir]
    /\ ret = -1
    /\ outcome = "running"
    /\ entered = {}
    /\ attempts = {}
    /\ failures = {}
    /\ writes = <<>>

\* The call of process_excel_data(input_file, output_file).  The rows of the
\* sheet are drawn where the function first reads them, at line 78.
InitProcess ==
    /\ UIdle
    /\ EIdle
    /\ input \in {"missing", "unreadable", "ok"}
    /\ header \in Headers
    /\ input /= "ok" => header = <<>>
    /\ sheet_rows = <<>>
    /\ output_file \in OutputFiles
    /\ ppc = "check_input"
    /\ df_columns = <<>>
    /\ req = 0
    /\ actual_columns = <<>>
    /\ missing_columns = <<>>
    /\ df_extract = NoTable
    /\ df_deduplicated = NoTable
    /\ saved = [exists |-> FALSE, table |-> NoTable]
    /\ io_error = FALSE
    /\ pret = "none"

\* return True / return False
PReturn(value) ==
    /\ pret' = value
    /\ ppc' = "done"

\* Lines 27-29.
CheckInput ==
    /\ ppc = "check_input"
    /\ IF input = "missing"
       THEN PReturn("False")
       ELSE /\ ppc' = "read_excel"
            /\ UNCHANGED pret
    /\ UNCHANGED <<input, header, sheet_rows, output_file, df_columns, req,
                   actual_columns, missing_columns, df_extract,
                   df_deduplicated, saved, io_error>>
    /\ UNCHANGED <<uvars, evars>>

\* Line 37, and lines 105-109 when pd.read_excel raises.
ReadExcel ==
    /\ ppc = "read_excel"
    /\ IF input = "unreadable"
       THEN /\ PReturn("False")
            /\ UNCHANGED df_columns
       ELSE /\ df_columns' = header
            /\ ppc' = "strip"
            /\ UNCHANGED pret
    /\ UNCHANGED <<input, header, sheet_rows, output_file, req,
                   actual_columns, missing_columns, df_extract,
                   df_deduplicated, saved, io_error>>
    /\ UNCHANGED <<uvars, evars>>

\* Lines 41-50: join and strip raise on a column name that is not a string.
StripColumns ==
    /\ ppc = "strip"
    /\ IF \E k \in 1..Len(df_columns) : df_columns[k].kind /= "str"
       THEN /\ PReturn("False")
            /\ UNCHANGED <<df_columns, req>>
       ELSE /\ df_columns' = [k \in 1..Len(df_columns) |->
                                 [kind |-> "str", text |-> strip(df_columns[k].text)]]
            /\ req' = 1
            /\ ppc' = "match"
            /\ UNCHANGED pret
    /\ UNCHANGED <<input, header, sheet_rows, output_file, actual_columns,
                   missing_columns, df_extract, df_deduplicated, saved,
                   io_error>>
    /\ UNCHANGED <<uvars, evars>>

\* The names of df.columns.
ColumnNames ==
    [k \in 1..Len(df_columns) |-> df_columns[k].text]

\* Line 62: the positions of the columns whose name contains req_col.
matching_cols(req_col) ==
    {k \in 1..Len(df_columns) : contains(ColumnNames[k], req_col)}

\* Lines 56-67: one iteration of the loop over required_columns.
MatchColumn ==
    /\ ppc = "match"
    /\ req <= Len(required_columns)
    /\ LET req_col == required_columns[req]
       IN  IF \E k \in 1..Len(df_columns) : ColumnNames[k] = req_col
           THEN /\ actual_columns' = Append(actual_columns, req_col)
                /\ UNCHANGED missing_columns
           ELSE IF matching_cols(req_col) /= {}
           THEN /\ actual_columns' =
                     Append(actual_columns,
                            ColumnNames[CHOOSE k \in matching_cols(req_col) :
                                           \A j \in matching_cols(req_col) : k <= j])
                /\ UNCHANGED missing_columns
           ELSE /\ missing_columns' = Append(missing_columns, req_col)
                /\ UNCHANGED actual_columns
    /\ req' = req + 1
    /\ UNCHANGED <<input, header, sheet_rows, output_file, ppc, df_columns,
                   df_extract, df_deduplicated, saved, io_error, pret>>
    /\ UNCHANGED <<uvars, evars>>

\* Lines 69-71.
CheckMissing ==
    /\ ppc = "match"
    /\ req > Len(required_columns)
    /\ IF missing_columns /= <<>>
       THEN PReturn("False")
       ELSE /\ ppc' = "extract"
            /\ UNCHANGED pret
    /\ UNCHANGED <<input, header, sheet_rows, output_file, df_columns, req,
                   actual_columns, missing_columns, df_extract,
                   df_deduplicated, saved, io_error>>
    /\ UNCHANGED <<uvars, evars>>

\* Line 74: dict(zip(actual_columns, required_columns)); a later pair
\* replaces an earlier one with the same key.
column_mapping ==
    [a \in {actual_columns[i] : i \in 1..Len(actual_columns)} |->
        required_columns[CHOOSE i \in 1..Len(actual_columns) :
                            /\ actual_columns[i] = a
                            /\ \A j \in 1..Len(actual_columns) :
                                 actual_columns[j] = a => j <= i]]

\* The position of the column of df that has a given name.
ColumnAt(name) ==
    CHOOSE k \in 1..Len(df_columns) : ColumnNames[k] = name

\* Line 78: df[actual_columns]
SelectColumns(rows) ==
    [columns |-> actual_columns,
     rows    |-> [r \in 1..Len(rows) |->
                    [i \in 1..Len(actual_columns) |->
                        rows[r][ColumnAt(actual_columns[i])]]]]

\* Line 80: rename(columns=column_mapping)
RenameColumns(table) ==
    [columns |-> [i \in 1..Len(table.columns) |-> column_mapping[table.columns[i]]],
     rows    |-> table.rows]

\* Lines 76-81.
ExtractColumns ==
    /\ ppc = "extract"
    /\ \E rows \in RowSeqs(header, {ColumnAt(actual_columns[i]) : i \in 1..Len(actual_columns)}) :
         /\ sheet_rows' = rows
         /\ df_extract' = RenameColumns(SelectColumns(rows))
    /\ ppc' = "drop_duplicates"
    /\ UNCHANGED <<input, header, output_file, df_columns, req,
                   actual_columns, missing_columns, df_deduplicated, saved,
                   io_error, pret>>
    /\ UNCHANGED <<uvars, evars>>

\* The rows of a table at the given positions, in order.
RowsAt(table, kept) ==
    [i \in 1..Cardinality(kept) |->
        table.rows[CHOOSE r \in kept : Cardinality({q \in kept : q <= r}) = i]]

\* The values of a row in the columns named in subset.
KeyOf(table, row, subset) ==
    [i \in {c \in 1..Len(table.columns) : table.columns[c] \in subset} |-> row[i]]

\* drop_duplicates keeping the last row of each key.
DropDuplicates_KeepLast(table, subset) ==
    [columns |-> table.columns,
     rows    |-> RowsAt(table,
                   {r \in 1..Len(table.rows) :
                      \A q \in (r + 1)..Len(table.rows) :
                         KeyOf(table, table.rows[q], subset) /= KeyOf(table, table.rows[r], subset)})]

\* DataFrame.drop_duplicates(subset=...): keeps the first row of each key.
DropDuplicates(table, subset) ==
    [columns |-> table.columns,
     rows    |-> RowsAt(table,
                   {r \in 1..Len(table.rows) :
                      \A q \in 1..(r - 1) :
                         KeyOf(table, table.rows[q], subset) /= KeyOf(table, table.rows[r], subset)})]

\* Line 88, and lines 105-109 when drop_duplicates raises KeyError for a
\* subset name that is not a column of df_extract.
Deduplicate ==
    /\ ppc = "drop_duplicates"
    /\ IF \E name \in dedup_subset :
            \A i \in 1..Len(df_extract.columns) : df_extract.columns[i] /= name
       THEN /\ PReturn("False")
            /\ UNCHANGED df_deduplicated
       ELSE /\ df_deduplicated' = DropDuplicates(df_extract, dedup_subset)
            /\ ppc' = "makedirs"
            /\ UNCHANGED pret
    /\ UNCHANGED <<input, header, sheet_rows, output_file, df_columns, req,
                   actual_columns, missing_columns, df_extract, saved,
                   io_error>>
    /\ UNCHANGED <<uvars, evars>>

\* Line 96: os.makedirs(os.path.dirname(output_file)) raises for an empty
\* path, and may raise for a reason outside the program.
MakeOutputDir ==
    /\ ppc = "makedirs"
    /\ IF dirname(output_file) = <<>>
       THEN /\ PReturn("False")
            /\ UNCHANGED io_error
       ELSE \E ok \in BOOLEAN :
              IF ok
              THEN /\ ppc' = "to_excel"
                   /\ UNCHANGED <<pret, io_error>>
              ELSE /\ PReturn("False")
                   /\ io_error' = TRUE
    /\ UNCHANGED <<input, header, sheet_rows, output_file, df_columns, req,
                   actual_columns, missing_columns, df_extract,
                   df_deduplicated, saved>>
    /\ UNCHANGED <<uvars, evars>>

\* Lines 100-103, and lines 105-109 when to_excel raises.
SaveExcel ==
    /\ ppc = "to_excel"
    /\ \E ok \in BOOLEAN :
         IF ok
         THEN /\ saved' = [exists |-> TRUE, table |-> df_deduplicated]
              /\ PReturn("True")
              /\ UNCHANGED io_error
         ELSE /\ PReturn("False")
              /\ io_error' = TRUE
              /\ UNCHANGED saved
    /\ UNCHANGED <<input, header, sheet_rows, output_file, df_columns, req,
                   actual_columns, missing_columns, df_extract,
                   df_deduplicated>>
    /\ UNCHANGED <<uvars, evars>>

NextProcess ==
    \/ CheckInput
    \/ ReadExcel
    \/ StripColumns
    \/ MatchColumn
    \/ CheckMissing
    \/ ExtractColumns
    \/ Deduplicate
    \/ MakeOutputDir
    \/ SaveExcel

SpecProcess ==
    InitProcess /\ [][NextProcess]_vars

----------------------------------------------------------------------------
\* Every required name is the stripped name of an input column or is
\* contained in one.
RequiredMatched ==
    \A r \in 1..Len(required_columns) :
        \E k \in 1..Len(header) :
            /\ header[k].kind = "str"
            /\ contains(strip(header[k].text), required_columns[r])

\* The required names can be matched by three different input columns.
DistinctMatchExists ==
    \E f \in [1..Len(required_columns) -> 1..Len(header)] :
        /\ \A i, j \in 1..Len(required_columns) : i /= j => f[i] /= f[j]
        /\ \A i \in 1..Len(required_columns) :
             /\ header[f[i]].kind = "str"
             /\ contains(strip(header[f[i]].text), required_columns[i])

\* C19: when each required name matches an input column (three different
\* columns being available for them, every header cell
\* being a string, the output path having a directory part and nothing
\* outside the program failing) the call returns True and the saved table has
\* exactly the three columns 款号, 产品名称, 品目, taken from three different
\* input columns; when a required name has no match the call returns False
\* and no file is written.
C19_MatchedColumnsSaved ==
    ppc = "done" =>
        IF RequiredMatched
        THEN (/\ input = "ok"
              /\ ~io_error
              /\ DistinctMatchExists
              /\ \A k \in 1..Len(header) : header[k].kind = "str"
              /\ dirname(output_file) /= <<>>) =>
                /\ pret = "True"
                /\ saved.exists
                /\ saved.table.columns = required_columns
                /\ \A i, j \in 1..Len(actual_columns) :
                     i /= j => actual_columns[i] /= actual_columns[j]
        ELSE /\ pret = "False"
             /\ ~saved.exists

\* The (款号, 产品名称) pair of an input row, through the selected columns.
InputPair(r) ==
    << sheet_rows[r][ColumnAt(actual_columns[1])],
       sheet_rows[r][ColumnAt(actual_columns[2])] >>

\* The (款号, 产品名称) pair of a saved row.
SavedPair(row) ==
    << row[CHOOSE c \in 1..Len(saved.table.columns) : saved.table.columns[c] = KuanHao],
       row[CHOOSE c \in 1..Len(saved.table.columns) : saved.table.columns[c] = ChanPinMingCheng] >>

\* The first input row that carries the pair of the i-th saved row.
FirstCarrier(i) ==
    CHOOSE r \in 1..Len(sheet_rows) :
        /\ InputPair(r) = SavedPair(saved.table.rows[i])
        /\ \A q \in 1..(r - 1) : InputPair(q) /= SavedPair(saved.table.rows[i])

----------------------------------------------------------------------------
\* upload_to_es.py: generate_actions, and the loop that sends its actions.

\* The call of generate_actions(df, index_name) at line 244, with an index
\* that holds no document yet.
InitUpload ==
    /\ PIdle
    /\ EIdle
    /\ df \in Frames
    /\ index_name = "products"
    /\ upc = "start"
    /\ row_at = 0
    /\ current_time = "none"
    /\ yielded = <<>>
    /\ chunk = <<>>
    /\ es_docs = NoDocs
    /\ success = 0
    /\ uret = "none"

\* How an f-string formats a cell: a string as it is, a number in decimal.
format(cell) ==
    IF cell.kind = "int" THEN str(cell.num) ELSE cell.text

\* Line 192: f"{row['款号']}-{row['产品名称']}"
id_name(row) ==
    format(row.kuan_hao) \o <<"-">> \o format(row.chan_pin_ming_cheng)

\* uuid.uuid5(namespace, name), taken as injective on the name: the UUID is
\* represented by the namespace and the name it is hashed from.
uuid5(namespace, name) ==
    [namespace |-> namespace, name |-> name]

\* Line 192.
doc_id(row) ==
    uuid5("NAMESPACE_DNS", id_name(row))

\* Lines 184-189.
doc(row, time) ==
    [kuan_hao |-> row.kuan_hao,
     chan_pin_ming_cheng |-> row.chan_pin_ming_cheng,
     pin_mu |-> row.pin_mu,
     shang_chuan_shi_jian |-> time]

\* Lines 195-199; at is the position of the row in df.
action(row, at, time) ==
    [index |-> index_name, id |-> doc_id(row), source |-> doc(row, time),
     at |-> at]

\* An index operation: the document is stored under its _id and replaces the
\* document that was there.
IndexDoc(docs, a) ==
    [i \in (DOMAIN docs) \cup {a.id} |->
        IF i = a.id THEN [source |-> a.source, by |-> a.at] ELSE docs[i]]

\* The operations of one request, in the order of the actions.
RECURSIVE IndexAll(_, _)
IndexAll(docs, as) ==
    IF as = <<>>
    THEN docs
    ELSE IndexAll(IndexDoc(docs, Head(as)), Tail(as))

\* Line 180, when the loop of line 245 asks for the first action.
StartGenerator ==
    /\ upc = "start"
    /\ \E t \in Times : current_time' = t
    /\ upc' = "iterate"
    /\ UNCHANGED <<df, index_name, row_at, yielded, chunk, es_docs, success, uret>>
    /\ UNCHANGED <<pvars, evars>>

\* Lines 182-199: the next row gives one action, collected for the request.
YieldAction ==
    /\ upc = "iterate"
    /\ row_at < Len(df)
    /\ Len(chunk) < ChunkSize
    /\ LET a == action(df[row_at + 1], row_at + 1, current_time)
       IN  /\ yielded' = Append(yielded, a)
           /\ chunk' = Append(chunk, a)
    /\ row_at' = row_at + 1
    /\ UNCHANGED <<df, index_name, upc, current_time, es_docs, success, uret>>
    /\ UNCHANGED <<pvars, evars>>

\* Lines 245-257: a full chunk, or the last one, is sent.  The request indexes
\* its actions and line 254 counts them, or it raises and lines 273-277
\* return False.
SendChunk ==
    /\ upc = "iterate"
    /\ chunk /= <<>>
    /\ Len(chunk) = ChunkSize \/ row_at = Len(df)
    /\ \E result \in {"ok", "error"} :
         IF result = "ok"
         THEN /\ es_docs' = IndexAll(es_docs, chunk)
              /\ success' = success + Len(chunk)
              /\ UNCHANGED <<upc, uret>>
         ELSE /\ uret' = "False"
              /\ upc' = "done"
              /\ UNCHANGED <<es_docs, success>>
    /\ chunk' = <<>>
    /\ UNCHANGED <<df, index_name, row_at, current_time, yielded>>
    /\ UNCHANGED <<pvars, evars>>

\* Lines 264-272: the generator is exhausted and every action was sent.
FinishUpload ==
    /\ upc = "iterate"
    /\ row_at = Len(df)
    /\ chunk = <<>>
    /\ uret' = "True"
    /\ upc' = "done"
    /\ UNCHANGED <<df, index_name, row_at, current_time, yielded, chunk, es_docs,
                   success>>
    /\ UNCHANGED <<pvars, evars>>

NextUpload ==
    \/ StartGenerator
    \/ YieldAction
    \/ SendChunk
    \/ FinishUpload

SpecUpload ==
    InitUpload /\ [][NextUpload]_vars

----------------------------------------------------------------------------
\* Claim about generate_actions.

\* The (款号, 产品名称) pair of a row.
PairOf(row) ==
    <<row.kuan_hao, row.chan_pin_ming_cheng>>

\* The positions of the rows whose action was indexed.
Indexed ==
    1..success

\* Whether the index holds the document of the row at position i.
Holds(i) ==
    /\ yielded[i].id \in DOMAIN es_docs
    /\ es_docs[yielded[i].id].by = i

\* C21: the _id is a function of the (款号, 产品名称) pair that identifies it:
\* two rows get the same _id exactly when they have the same 款号 and the same
\* 产品名称, and a row whose action was indexed keeps its document in the index
\* unless a later row with the same pair replaced it; values may contain the
\* separator "-".  Stated for data frames whose cells are all strings.
C21_IdIdentifiesPair ==
    (\A k \in 1..Len(df) :
        df[k].kuan_hao.kind = "str" /\ df[k].chan_pin_ming_cheng.kind = "str")
    => /\ \A i, j \in 1..Len(yielded) :
            (yielded[i].id = yielded[j].id) <=> (PairOf(df[i]) = PairOf(df[j]))
       /\ \A i \in Indexed :
            \/ Holds(i)
            \/ \E j \in Indexed : j > i /\ PairOf(df[j]) = PairOf(df[i])

====
